---- MODULE Spec2Model ----
(***************************************************************************)
(* Session / CSRF-retry layer of the prospect-pipeline repository.         *)
(*                                                                         *)
(*   Spec        NPIDSession (docs/npid-api-layer/app/session.py): any     *)
(*               number of coroutines calling post()/get() on one shared   *)
(*               session object; every await is a suspension point.        *)
(*   SpecClient  NPIDAPIClient (src/python/npid_api_client.py): the        *)
(*               synchronous client, one operation at a time, one step     *)
(*               per HTTP exchange.                                        *)
(*   SpecVPS     VPSBrokerClient (src/python/vps_broker_api_client.py),    *)
(*               likewise.                                                 *)
(*   SpecAutomator  NpidAutomator (mcp-servers/npid-native/                *)
(*               npid_automator.py) shared by the coroutines of the MCP    *)
(*               tools of video-team-bridge/npid_server.py; the sections   *)
(*               under self._lock are entered one task at a time.          *)
(*   SpecApp     the FastAPI process (npid-api-layer/main.py): module      *)
(*               level NPIDSession(), startup_event, the requests of the   *)
(*               running app as in Spec, shutdown_event.                   *)
(*   SpecClassify  the three _is_csrf_failure applied to one response.     *)
(*                                                                         *)
(* Text (header values, bodies) is represented by the set of the needles   *)
(* the code searches for that occur in it; a CSRF token is a number, 0     *)
(* standing for None / the empty string.                                   *)
(***************************************************************************)
EXTENDS Integers, Sequences, FiniteSets, TLC

\* ---------------------------------------------------------------- bounds
NCallers == 2
MaxTok == 2
MaxMsg == 1
NTasks == 2
\* the count of POSTs of one VPSBrokerClient operation saturates here
MaxPosts == 4
\* the streaming requests in flight at once, and the most inbox threads one
\* of them streams
NHandlers == 2
MaxThreads == 1
\* the most <option> tags with a value in an HTML fragment
MaxOptions == 2

Callers == 1..NCallers
Tokens == 1..MaxTok
NoToken == 0
\* message ids; 0 is message_id=None
MsgIds == 0..MaxMsg
TaskIds == 1..NTasks
NoTask == 0
Handlers == 1..NHandlers

\* ------------------------------------------------------------ RawOutcome
Resp(st, loc, ct, body) ==
  [status |-> st, location |-> loc, content_type |-> ct, body |-> body, exc |-> ""]

Raised(e) ==
  [status |-> 0, location |-> {}, content_type |-> {}, body |-> {}, exc |-> e]

NoResp == Raised("")
Timeout == Raised("timeout")
AuthExc == Raised("auth")

R200 == Resp(200, {}, {"application/json"}, {})
R500 == Resp(500, {}, {"application/json"}, {})
R419 == Resp(419, {}, {"text/html"}, {"<html"})
R302Login == Resp(302, {"/auth/login", "/login"}, {"text/html"}, {})
R200HtmlCsrf == Resp(200, {}, {"text/html"}, {"<html", "csrf"})
R200Html == Resp(200, {}, {"text/html"}, {"<html"})

\* What the upstream can answer to a request of the session layer.
Responses == {R200, R500, R419, R302Login, R200HtmlCsrf}
Outcomes == Responses \cup {Timeout}

\* What the upstream can answer to a request of the synchronous clients.
ClientResponses == {R200, R500, R419, R302Login, R200Html}
ClientOutcomes == ClientResponses \cup {Timeout}

VARIABLES
  session, task, inflight_refresh,   \* NPIDSession and its callers
  client, cop,                       \* NPIDAPIClient and its running operation
  vps, vop,                          \* VPSBrokerClient and its running operation
  automator, atask,                  \* NpidAutomator and the tool coroutines
  app,                               \* the FastAPI process around NPIDSession
  probe,                             \* a response handed to the classifiers
  form,                              \* a request on its way through the API layer
  dec,                               \* a response body and what decode made of it
  sse                                \* the SSE server: event queue and handlers

sessionVars == <<session, task, inflight_refresh>>
clientVars == <<client, cop>>
vpsVars == <<vps, vop>>
automatorVars == <<automator, atask>>
vars ==
  <<session, task, inflight_refresh, client, cop, vps, vop, automator, atask,
    app, probe, form, dec, sse>>
\* what the actions of one component leave alone
nonSession ==
  <<client, cop, vps, vop, automator, atask, app, probe, form, dec, sse>>
nonClient ==
  <<session, task, inflight_refresh, vps, vop, automator, atask, app, probe,
    form, dec, sse>>
nonVPS ==
  <<session, task, inflight_refresh, client, cop, automator, atask, app,
    probe, form, dec, sse>>
nonAutomator ==
  <<session, task, inflight_refresh, client, cop, vps, vop, app, probe, form,
    dec, sse>>
nonApp ==
  <<client, cop, vps, vop, automator, atask, probe, form, dec, sse>>
nonProbe ==
  <<session, task, inflight_refresh, client, cop, vps, vop, automator, atask,
    app, form, dec, sse>>
nonForm ==
  <<session, task, inflight_refresh, client, cop, vps, vop, automator, atask,
    app, probe, dec, sse>>
nonDec ==
  <<session, task, inflight_refresh, client, cop, vps, vop, automator, atask,
    app, probe, form, sse>>
nonSSE ==
  <<session, task, inflight_refresh, client, cop, vps, vop, automator, atask,
    app, probe, form, dec>>

\* ------------------------------------------------- NPIDSession (session.py)
\* data_token is data["_token"] of the request being made (NoToken again once
\* the call has returned); refresh_exc is the exception refresh_csrf caught and
\* logged before the POST now in flight ("" when it caught none).
IdleTask ==
  [pc |-> "idle", data_token |-> NoToken, refresh_exc |-> "",
   resp1 |-> NoResp, result |-> NoResp, result_from |-> 0, posts |-> 0]

\* _is_csrf_failure with every error status taken for a CSRF failure.
_is_csrf_failure_any_error(resp) ==
  \/ resp.status >= 400
  \/ resp.status \in {301, 302} /\ "/auth/login" \in resp.location
  \/ "text/html" \in resp.content_type
       /\ ("csrf" \in resp.body \/ "token mismatch" \in resp.body)

\* NPIDSession._is_csrf_failure
_is_csrf_failure(resp) ==
  \/ resp.status = 419
  \/ resp.status \in {301, 302} /\ "/auth/login" \in resp.location
  \/ "text/html" \in resp.content_type
       /\ ("csrf" \in resp.body \/ "token mismatch" \in resp.body)

\* What the GET of refresh_csrf can end with: a page (token is what the regex
\* finds in it, NoToken when it finds nothing) or the 30 s timeout of the
\* client.
RefreshOutcomes ==
  [token : Tokens \cup {NoToken}, exc : {""}]
    \cup {[token |-> NoToken, exc |-> "timeout"]}

\* NPIDSession.refresh_csrf, after the GET returned: page is the token the
\* regex finds in the page (NoToken: no match, or the GET raised).
refresh_csrf(tok, page) == IF page # NoToken THEN page ELSE tok

\* What ~/.npid_session.pkl can be when the process starts: not there, a
\* pickled jar with cookies, a pickled empty jar, or not a pickle at all.
SessionFiles == {"missing", "cookies", "empty", "corrupt"}

\* NPIDSession._load_session_sync: is there a cookie in the client's jar
\* afterwards (the value is_authenticated gets when the file could be read)?
_load_session_sync(file) == file = "cookies"

\* The process after "from app.session import session_manager": the module
\* level NPIDSession() has run __init__ and with it _load_session_sync.
NewApp(file) ==
  [pc |-> "loaded", session_file |-> file,
   cookies |-> _load_session_sync(file),
   is_authenticated |-> _load_session_sync(file),
   error |-> "", transport |-> "open"]

\* ------------------------------------------ NPIDAPIClient (npid_api_client.py)
\* login_page is what the login page fetched by login() held: "" when none
\* was fetched, "token" or "no_token" for a page with or without the _token
\* input.
IdleOp ==
  [pc |-> "idle", op |-> "", message_id |-> 0, form_token |-> NoToken,
   data_token |-> NoToken, first_token |-> NoToken,
   resp1 |-> NoResp, result |-> NoResp, result_from |-> 0, posts |-> 0,
   modal_gets |-> 0, fresh |-> NoToken, login_page |-> "",
   stage |-> "", stage_value |-> ""]

\* Values callers pass as stage to update_video_stage ("" also stands for
\* None).
StageInputs == {"on_hold", "Awaiting Client", "in-queue", "done", "bogus", ""}

\* (stage or '').lower().replace('-', ' ').replace('_', ' ').strip()
stage_key(stage) ==
  CASE stage = "on_hold" -> "on hold"
    [] stage = "Awaiting Client" -> "awaiting client"
    [] stage = "in-queue" -> "in queue"
    [] OTHER -> stage

\* the lookup table of _normalize_stage_for_api
StageLookup ==
  [k \in {"on hold", "awaiting client", "in queue", "done"} |->
     CASE k = "on hold" -> "On Hold"
       [] k = "awaiting client" -> "Awaiting Client"
       [] k = "in queue" -> "In Queue"
       [] OTHER -> "Done"]

\* NPIDAPIClient._normalize_stage_for_api
_normalize_stage_for_api(stage) ==
  IF stage_key(stage) \in DOMAIN StageLookup
    THEN StageLookup[stage_key(stage)]
    ELSE "In Queue"

\* A new NPIDAPIClient (lines 29-38); cookie_file_written: has _save_session
\* written ~/.npid_session.pkl?
NewClient ==
  [authenticated |-> FALSE, csrf_token |-> NoToken,
   csrf_token_cache |-> [m \in MsgIds |-> NoToken],
   cookie_file_written |-> FALSE]

\* _get_csrf_token that hands back whatever the page has, even nothing.
_get_csrf_token_unchecked(page) == [raised |-> FALSE, token |-> page]

\* NPIDAPIClient._get_csrf_token: page is the value of the _token input of
\* the login page, NoToken when there is no such input or it has no value.
_get_csrf_token(page) == [raised |-> page = NoToken, token |-> page]

\* NPIDAPIClient._is_csrf_failure
Client_is_csrf_failure(response) ==
  \/ response.status = 419
  \/ response.status \in {301, 302, 303, 307, 308} /\ "/login" \in response.location
  \/ "text/html" \in response.content_type
       /\ \/ ("login" \in response.body \/ "<title>" \in response.body)
             /\ ("national prospect id | login" \in response.body
                  \/ "<title>login</title>" \in response.body)
          \/ response.status = 200
             /\ ("<!doctype html>" \in response.body \/ "<html" \in response.body)

\* --------------------------------------- VPSBrokerClient (vps_broker_api_client.py)
VIdleOp ==
  [pc |-> "idle", op |-> "", message_id |-> 0,
   data_token |-> NoToken, first_token |-> NoToken,
   resp1 |-> NoResp, result |-> NoResp, ret |-> "", posts |-> 0]

\* A new VPSBrokerClient (lines 41-50); cookie_file_written: has _save_session
\* written ~/.npid_session.pkl?
NewVPS ==
  [csrf_token |-> NoToken, csrf_token_cache |-> [m \in MsgIds |-> NoToken],
   cookie_file_written |-> FALSE]

\* VPSBrokerClient._is_csrf_failure
VPS_is_csrf_failure(response) ==
  \/ response.status = 419
  \/ response.status \in {301, 302, 303, 307, 308} /\ "/login" \in response.location
  \/ "text/html" \in response.content_type
       /\ ("login" \in response.body \/ "<title>" \in response.body)
       /\ ("National Prospect ID | Login" \in response.body
            \/ "<title>Login</title>" \in response.body)
  \/ response.status = 200 /\ "text/html" \in response.content_type
       /\ ("<!doctype html>" \in response.body \/ "<html" \in response.body)

\* ------------------------------------------- NpidAutomator (npid_automator.py)
\* started stands for _playwright, _browser, _context and _page, which are
\* set together (lines 120-123) and cleared together (lines 60-63).
NewAutomator(creds, storage) ==
  [started |-> FALSE, _csrf_token |-> NoToken, _last_login |-> "none",
   _lock |-> NoTask, credentials |-> creds, storage |-> storage]

IdleATask ==
  [pc |-> "idle", op |-> "", body_token |-> NoToken, header_token |-> NoToken,
   status |-> 0, error |-> "", fetches |-> 0]

\* NpidAutomator._is_session_fresh
_is_session_fresh(a) == a.started /\ a._last_login = "fresh"

\* NpidAutomator._ensure_started: a new browser page has no csrf meta tag, so
\* _refresh_csrf_token leaves the token as it is.
_ensure_started(a) ==
  IF a.started THEN a
  ELSE IF a.storage THEN [a EXCEPT !.started = TRUE, !._last_login = "fresh"]
  ELSE [a EXCEPT !.started = TRUE]

\* NpidAutomator._refresh_csrf_token: meta is the content of the csrf meta tag.
_refresh_csrf_token(a, meta) ==
  IF meta # NoToken THEN [a EXCEPT !._csrf_token = meta] ELSE a

\* NpidAutomator._perform_login when it does not raise.
_perform_login(a, meta) ==
  [_refresh_csrf_token(a, meta) EXCEPT !._last_login = "fresh", !.storage = TRUE]

\* ------------------------------------------- input of the translator
\* A request of the API layer before LegacyTranslator has seen it: its
\* endpoint family, the token its payload brings (formToken of the assignment
\* modal, csrf_token of the reply form; NoToken: '') and the session's
\* csrf_token when the router calls NPIDSession.post; auto_approve is the
\* flag of a VideoSubmitRequest.
Families ==
  {"seasons", "video_submit", "stage_update", "status_update", "due_date",
   "video_progress", "assign_thread", "send_reply"}
GivenForm(family, auto_approve, form_token, csrf_token) ==
  [pc |-> "given", family |-> family, auto_approve |-> auto_approve,
   form_token |-> form_token, csrf_token |-> csrf_token, fields |-> {}, token |-> NoToken,
   sent_fields |-> {}, sent_token |-> NoToken]
IdleForm == GivenForm("stage_update", FALSE, NoToken, NoToken)

\* ------------------------------------------- input of the decoders
\* A response body, by what the parsers of LegacyTranslator look at.
\*   kind: "empty" (''), "json" (json.loads accepts it), "html" (markup),
\*     "form" (a=1&b=2), "text" (anything else)
\*   json: top is "dict", "list" or "scalar"; of a dict, success is the value
\*     under "success" ("true"/"false" the strings, "True"/"False" the JSON
\*     booleans), status_ok says "status" is "ok", data is what "data" holds,
\*     response what data["response"] holds (a string that is JSON again, or
\*     one that is not), inner_success the "success" of that inner JSON,
\*     inner_words which of the words success/true the inner text contains,
\*     seasons says "seasons" holds a list
\*   html: options is the number of <option value="..."> tags with a value,
\*     placeholder says there is one with value=""
\*   form: contact_task says the field contact_task is there
SuccessValues == {"absent", "true", "True", "false", "False"}
BlankBody ==
  [kind |-> "empty", top |-> "", success |-> "absent", status_ok |-> FALSE,
   data |-> "absent", response |-> "absent", inner_success |-> "absent",
   inner_words |-> {}, seasons |-> FALSE, options |-> 0,
   placeholder |-> FALSE, contact_task |-> FALSE]
JsonDicts ==
  {[BlankBody EXCEPT !.kind = "json", !.top = "dict", !.success = su,
                     !.status_ok = ok, !.data = da, !.seasons = se] :
     su \in SuccessValues, ok \in BOOLEAN, da \in {"absent", "list", "dict"},
     se \in BOOLEAN}
NestedJson ==
  {[b EXCEPT !.response = "json", !.inner_success = su] :
     b \in {x \in JsonDicts : x.data = "dict"}, su \in SuccessValues}
NestedText ==
  {[b EXCEPT !.response = "text", !.inner_words = w] :
     b \in {x \in JsonDicts : x.data = "dict"},
     w \in SUBSET {"success", "true"}}
HtmlBodies ==
  {[BlankBody EXCEPT !.kind = "html", !.options = n, !.placeholder = ph] :
     n \in 0..MaxOptions, ph \in BOOLEAN}
Bodies ==
  {BlankBody,
   [BlankBody EXCEPT !.kind = "text"],
   [BlankBody EXCEPT !.kind = "form"],
   [BlankBody EXCEPT !.kind = "form", !.contact_task = TRUE],
   [BlankBody EXCEPT !.kind = "json", !.top = "list"],
   [BlankBody EXCEPT !.kind = "json", !.top = "scalar"]}
    \cup JsonDicts \cup NestedJson \cup NestedText \cup HtmlBodies

DecodeOps == {"video_submit", "seasons", "stage_update", "assign_thread"}
\* What a parser returns: success is the truth value the router branches on,
\* raised the exception that escaped instead, raw what the result keeps of
\* the body ("excerpt": raw_response[:500], "outer": the parsed object),
\* seasons what the seasons field holds, contact_id whether it was filled.
NoResult ==
  [success |-> FALSE, raised |-> "", raw |-> "none", seasons |-> "none",
   contact_id |-> FALSE]
GivenBody(op, body) ==
  [pc |-> "given", op |-> op, body |-> body, result |-> NoResult]
IdleDec == GivenBody("stage_update", BlankBody)

\* ------------------------------------------- the SSE server at start
\* A streaming handler (the generate() of one request, run on a thread of its
\* own): op is its route, next the type of the event it emits next, emitted
\* how many events it has put on event_queue, yielded the events it has sent
\* to its client, threads how many inbox threads it still has to stream.
IdleHandler ==
  [pc |-> "idle", op |-> "", next |-> "", emitted |-> 0, yielded |-> <<>>,
   threads |-> 0]
\* The module's globals and the consumer of /stream (taken: what it has sent
\* to its client).
NewSSE ==
  [automator_instance |-> FALSE, event_queue |-> <<>>,
   handler |-> [h \in Handlers |-> IdleHandler],
   stream |-> [pc |-> "off", taken |-> {}]]

\* ------------------------------------------- input of the classifiers
\* The responses the classifiers are tried on: every redirect status and some
\* others, with and without a Location at the login path, as JSON and as
\* HTML, with the bodies below.
ProbeStatuses == {200, 301, 302, 303, 307, 308, 404, 419, 500}
ProbeLocations == {{}, {"/auth/login", "/login"}, {"/dashboard"}}
ProbeContentTypes == {{"application/json"}, {"text/html"}}
\* an HTML page of the upstream that says nothing about login or tokens
ErrorPage == {"<!doctype html>", "<html", "<title>"}
\* the "419 Page Expired" page
CsrfPage == ErrorPage \cup {"csrf", "token mismatch"}
\* the login page, titled "National Prospect ID | Login"
LoginPage ==
  ErrorPage \cup {"login", "National Prospect ID | Login",
                  "national prospect id | login"}
ProbeBodies == {{}, ErrorPage, CsrfPage, LoginPage}
ProbeResponses ==
  {Resp(st, loc, ct, body) :
     st \in ProbeStatuses, loc \in ProbeLocations,
     ct \in ProbeContentTypes, body \in ProbeBodies}

\* A response before and after the three _is_csrf_failure have seen it.
Given(r) ==
  [pc |-> "given", resp |-> r,
   session |-> FALSE, client |-> FALSE, vps |-> FALSE]

\* The components a stateless layer is checked beside, each as constructed.
InitOthers ==
  /\ session = [csrf_token |-> NoToken]
  /\ task = [c \in Callers |-> IdleTask]
  /\ inflight_refresh = 0
  /\ client = NewClient
  /\ cop = IdleOp
  /\ vps = NewVPS
  /\ vop = VIdleOp
  /\ automator = NewAutomator(TRUE, FALSE)
  /\ atask = [t \in TaskIds |-> IdleATask]
  /\ app = NewApp("missing")
  /\ probe = Given(R200)

Init ==
  /\ session = [csrf_token |-> NoToken]
  /\ task = [c \in Callers |-> IdleTask]
  /\ inflight_refresh = 0
  /\ client = NewClient
  /\ cop = IdleOp
  /\ vps = NewVPS
  /\ vop = VIdleOp
  /\ automator = NewAutomator(TRUE, FALSE)
  /\ atask = [t \in TaskIds |-> IdleATask]
  /\ app = NewApp("missing")
  /\ probe = Given(R200)
  /\ form = IdleForm
  /\ dec = IdleDec
  /\ sse = NewSSE

\* post(): lines 147-160 up to the first suspension point.
PostBegin(c) ==
  /\ task[c].pc = "idle"
  /\ IF session.csrf_token = NoToken
       THEN /\ task' = [task EXCEPT ![c].pc = "refresh0"]
            /\ inflight_refresh' = inflight_refresh + 1
       ELSE /\ task' = [task EXCEPT ![c].pc = "post1",
                                    ![c].data_token = session.csrf_token,
                                    ![c].posts = 1]
            /\ UNCHANGED inflight_refresh
  /\ UNCHANGED <<session, nonSession>>

\* The refresh GET of caller c returns; post() goes on to inject the session
\* token and send the POST (lines 156-160 after line 152, 173-177 after 170).
RefreshReturn(c) ==
  /\ task[c].pc \in {"refresh0", "refresh1"}
  /\ \E get \in RefreshOutcomes :
       LET tok == refresh_csrf(session.csrf_token, get.token) IN
       /\ session' = [session EXCEPT !.csrf_token = tok]
       /\ task' = [task EXCEPT
              ![c].pc = IF task[c].pc = "refresh0" THEN "post1" ELSE "post2",
              ![c].data_token = tok,
              ![c].refresh_exc = get.exc,
              ![c].posts = task[c].posts + 1]
  /\ inflight_refresh' = inflight_refresh - 1
  /\ UNCHANGED nonSession

\* Post1Return without the retry: the first response is returned whatever it is.
Post1Return_no_retry(c) ==
  /\ task[c].pc = "post1"
  /\ \E r \in Outcomes :
       task' = [task EXCEPT ![c].pc = "done", ![c].data_token = NoToken,
                            ![c].refresh_exc = "", ![c].resp1 = r,
                            ![c].result = r, ![c].result_from = 1]
  /\ UNCHANGED <<session, inflight_refresh, nonSession>>

\* The first POST returns (lines 160-170).
Post1Return(c) ==
  /\ task[c].pc = "post1"
  /\ \E r \in Outcomes :
       IF r.exc # "" \/ ~_is_csrf_failure(r)
         THEN /\ task' = [task EXCEPT ![c].pc = "done",
                                      ![c].data_token = NoToken,
                                      ![c].refresh_exc = "", ![c].resp1 = r,
                                      ![c].result = r, ![c].result_from = 1]
              /\ UNCHANGED inflight_refresh
         ELSE /\ task' = [task EXCEPT ![c].pc = "refresh1",
                                      ![c].refresh_exc = "", ![c].resp1 = r]
              /\ inflight_refresh' = inflight_refresh + 1
  /\ UNCHANGED <<session, nonSession>>

\* The retry POST returns (lines 177-179); its response replaces the first
\* one in the variable response.
Post2Return(c) ==
  /\ task[c].pc = "post2"
  /\ \E r \in Outcomes :
       task' = [task EXCEPT ![c].pc = "done", ![c].data_token = NoToken,
                            ![c].refresh_exc = "", ![c].resp1 = NoResp,
                            ![c].result = r, ![c].result_from = 2]
  /\ UNCHANGED <<session, inflight_refresh, nonSession>>

\* get(): line 183, the call is sent.
GetBegin(c) ==
  /\ task[c].pc = "idle"
  /\ task' = [task EXCEPT ![c].pc = "get1"]
  /\ UNCHANGED <<session, inflight_refresh, nonSession>>

\* get(): the response is handed to the caller as it is.
GetReturn(c) ==
  /\ task[c].pc = "get1"
  /\ \E r \in Outcomes :
       task' = [task EXCEPT ![c].pc = "gotten", ![c].resp1 = r, ![c].result = r,
                            ![c].result_from = 1]
  /\ UNCHANGED <<session, inflight_refresh, nonSession>>

\* The caller takes the result; the coroutine is free for the next request.
Finish(c) ==
  /\ task[c].pc \in {"done", "gotten"}
  /\ task' = [task EXCEPT ![c] = IdleTask]
  /\ UNCHANGED <<session, inflight_refresh, nonSession>>

Next ==
  \E c \in Callers :
    \/ PostBegin(c)
    \/ RefreshReturn(c)
    \/ Post1Return(c)
    \/ Post2Return(c)
    \/ GetBegin(c)
    \/ GetReturn(c)
    \/ Finish(c)

Spec == Init /\ [][Next]_vars

\* ------------------------------------------------------ the classifiers
Classify ==
  /\ probe.pc = "given"
  /\ probe' = [probe EXCEPT !.pc = "classified",
                            !.session = _is_csrf_failure(probe.resp),
                            !.client = Client_is_csrf_failure(probe.resp),
                            !.vps = VPS_is_csrf_failure(probe.resp)]
  /\ UNCHANGED nonProbe

NextClassify == Classify

InitClassify ==
  /\ session = [csrf_token |-> NoToken]
  /\ task = [c \in Callers |-> IdleTask]
  /\ inflight_refresh = 0
  /\ client = NewClient
  /\ cop = IdleOp
  /\ vps = NewVPS
  /\ vop = VIdleOp
  /\ automator = NewAutomator(TRUE, FALSE)
  /\ atask = [t \in TaskIds |-> IdleATask]
  /\ app = NewApp("missing")
  /\ \E r \in ProbeResponses : probe = Given(r)
  /\ form = IdleForm
  /\ dec = IdleDec
  /\ sse = NewSSE

SpecClassify == InitClassify /\ [][NextClassify]_vars

\* ------------------------------------------------ the FastAPI app (main.py)
\* startup_event: refresh_csrf is called and its GET leaves (line 34).
StartupBegin ==
  /\ app.pc = "loaded"
  /\ app' = [app EXCEPT !.pc = "starting"]
  /\ inflight_refresh' = inflight_refresh + 1
  /\ UNCHANGED <<session, task, nonApp>>

\* startup_event: refresh_csrf returns, whatever its GET ended with, and the
\* startup is complete (lines 34-35); requests are served from now on.
StartupReturn ==
  /\ app.pc = "starting"
  /\ \E get \in RefreshOutcomes :
       session' = [session EXCEPT
                     !.csrf_token = refresh_csrf(session.csrf_token, get.token)]
  /\ app' = [app EXCEPT !.pc = "running"]
  /\ inflight_refresh' = inflight_refresh - 1
  /\ UNCHANGED <<task, nonApp>>

\* A router of the running app makes a step of a session_manager call.
Request ==
  /\ app.pc = "running"
  /\ Next

\* shutdown_event, once the requests being served have been answered:
\* session_manager.close(), that is self.client.aclose() (lines 38-40 and
\* session.py 185-186).
Shutdown ==
  /\ app.pc = "running"
  /\ \A c \in Callers : task[c].pc = "idle"
  /\ app' = [app EXCEPT !.pc = "closed", !.transport = "closed"]
  /\ UNCHANGED <<session, task, inflight_refresh, nonApp>>

NextApp ==
  \/ StartupBegin
  \/ StartupReturn
  \/ Request
  \/ Shutdown

InitApp ==
  /\ session = [csrf_token |-> NoToken]
  /\ task = [c \in Callers |-> IdleTask]
  /\ inflight_refresh = 0
  /\ client = NewClient
  /\ cop = IdleOp
  /\ vps = NewVPS
  /\ vop = VIdleOp
  /\ automator = NewAutomator(TRUE, FALSE)
  /\ atask = [t \in TaskIds |-> IdleATask]
  /\ \E file \in SessionFiles : app = NewApp(file)
  /\ probe = Given(R200)
  /\ form = IdleForm
  /\ dec = IdleDec
  /\ sse = NewSSE

SpecApp == InitApp /\ [][NextApp]_vars

\* --------------------------------------------------- NPIDAPIClient actions
\* The POST of _retry_with_csrf leaves (line 202, line 220).
ClSend(o, tok, n) ==
  [o EXCEPT !.pc = IF n = 1 THEN "post1" ELSE "post2",
            !.data_token = tok,
            !.first_token = IF n = 1 THEN tok ELSE o.first_token,
            !.posts = n]

\* assign_thread, line 507: '_token': payload.get('formToken', self.csrf_token or '')
ClFormToken(o) ==
  IF o.form_token # NoToken THEN o.form_token ELSE client.csrf_token

\* What an operation does once ensure_authenticated() has returned.
ClProceed(o) ==
  IF o.op = "assign_thread"
    THEN ClSend(o, ClFormToken(o), 1)
    ELSE [o EXCEPT !.pc = "csrfpage",
                   !.stage_value = _normalize_stage_for_api(o.stage)]

\* assign_thread(payload) is called: messageId m, formToken f (NoToken: the
\* payload has none). ensure_authenticated() logs in when needed.
ClAssignBegin ==
  /\ cop.pc = "idle"
  /\ \E m \in MsgIds \ {0}, f \in Tokens \cup {NoToken} :
       LET o == [IdleOp EXCEPT !.op = "assign_thread", !.message_id = m,
                               !.form_token = f] IN
       cop' = IF client.authenticated THEN ClProceed(o)
              ELSE [o EXCEPT !.pc = "login"]
  /\ UNCHANGED <<client, nonClient>>

\* update_video_stage(video_msg_id, stage) is called; ensure_authenticated()
\* logs in when needed (line 1303).
ClStageBegin ==
  /\ cop.pc = "idle"
  /\ \E stage \in StageInputs :
       LET o == [IdleOp EXCEPT !.op = "update_video_stage", !.stage = stage] IN
       cop' = IF client.authenticated THEN ClProceed(o)
              ELSE [o EXCEPT !.pc = "login"]
  /\ UNCHANGED <<client, nonClient>>

\* login() returns or raises (lines 83-111): valid is the answer of
\* validate_session, page the token of the login page, status the status of
\* the answer to the login POST.
ClLoginReturn ==
  /\ cop.pc = "login"
  /\ \E valid \in BOOLEAN, page \in Tokens \cup {NoToken},
        status \in {200, 302} :
       LET o == [cop EXCEPT !.login_page =
                   IF page = NoToken THEN "no_token" ELSE "token"] IN
       IF valid
         THEN /\ client' = [client EXCEPT !.authenticated = TRUE]
              /\ cop' = ClProceed(cop)
       ELSE IF _get_csrf_token(page).raised
         THEN /\ cop' = [o EXCEPT !.pc = "done", !.result = AuthExc]
              /\ UNCHANGED client
       ELSE IF status = 302
         THEN /\ client' = [client EXCEPT !.authenticated = TRUE,
                                          !.cookie_file_written = TRUE]
              /\ cop' = ClProceed(o)
       ELSE /\ cop' = [o EXCEPT !.pc = "done", !.result = AuthExc]
            /\ UNCHANGED client
  /\ UNCHANGED nonClient

\* update_video_stage: _get_csrf_token() returns the login page's token or
\* raises (lines 62-70); the POST is sent directly (line 1310).
ClCsrfPageReturn ==
  /\ cop.pc = "csrfpage"
  /\ \E page \in Tokens \cup {NoToken} :
       cop' = IF _get_csrf_token(page).raised
                THEN [cop EXCEPT !.pc = "done", !.result = AuthExc]
                ELSE [cop EXCEPT !.pc = "direct", !.data_token = page,
                                 !.first_token = page, !.posts = 1]
  /\ UNCHANGED <<client, nonClient>>

\* update_video_stage: the POST returns; only status 200 is a success.
ClDirectReturn ==
  /\ cop.pc = "direct"
  /\ \E r \in ClientOutcomes :
       cop' = [cop EXCEPT !.pc = "done", !.resp1 = r, !.result = r,
                          !.result_from = 1]
  /\ UNCHANGED <<client, nonClient>>

\* _retry_with_csrf: the first request returns (lines 202-208);
\* _get_token_for_modal answers from the cache or fetches the modal page.
ClPost1Return ==
  /\ cop.pc = "post1"
  /\ \E r \in ClientOutcomes :
       cop' =
         IF r.exc # "" \/ ~Client_is_csrf_failure(r)
           THEN [cop EXCEPT !.pc = "done", !.resp1 = r, !.result = r,
                            !.result_from = 1]
         ELSE IF client.csrf_token_cache[cop.message_id] # NoToken
           THEN ClSend([cop EXCEPT !.resp1 = r],
                       client.csrf_token_cache[cop.message_id], 2)
         ELSE [cop EXCEPT !.pc = "modal", !.resp1 = r, !.modal_gets = 1]
  /\ UNCHANGED <<client, nonClient>>

\* _get_token_for_modal: the modal page returns (lines 180-196), then
\* _retry_with_csrf lines 210-220.
ClModalReturn ==
  /\ cop.pc = "modal"
  /\ \E page \in Tokens \cup {NoToken} :
       IF page # NoToken
         THEN /\ client' = [client EXCEPT
                    !.csrf_token = page,
                    !.csrf_token_cache[cop.message_id] = page]
              /\ cop' = ClSend([cop EXCEPT !.fresh = page], page, 2)
         ELSE /\ cop' = [cop EXCEPT !.pc = "done", !.result = cop.resp1,
                                    !.result_from = 1]
              /\ UNCHANGED client
  /\ UNCHANGED nonClient

\* _retry_with_csrf: the retried request returns (lines 220-221).
ClPost2Return ==
  /\ cop.pc = "post2"
  /\ \E r \in ClientOutcomes :
       cop' = [cop EXCEPT !.pc = "done", !.result = r, !.result_from = 2]
  /\ UNCHANGED <<client, nonClient>>

\* The caller takes the result.
ClFinish ==
  /\ cop.pc = "done"
  /\ cop' = IdleOp
  /\ UNCHANGED <<client, nonClient>>

NextClient ==
  \/ ClAssignBegin
  \/ ClStageBegin
  \/ ClLoginReturn
  \/ ClCsrfPageReturn
  \/ ClDirectReturn
  \/ ClPost1Return
  \/ ClModalReturn
  \/ ClPost2Return
  \/ ClFinish

SpecClient == Init /\ [][NextClient]_vars

\* --------------------------------------------------- VPSBrokerClient actions
Min(a, b) == IF a < b THEN a ELSE b

\* A POST leaves; n is 1 for a first attempt, 2 for the retry of
\* _retry_with_csrf (lines 164, 185), 0 for the direct POST of send_reply.
VSend(o, tok, n) ==
  [o EXCEPT !.pc = IF n = 1 THEN "post1" ELSE IF n = 2 THEN "post2" ELSE "direct",
            !.data_token = tok,
            !.first_token = IF n = 2 THEN o.first_token ELSE tok,
            !.posts = Min(o.posts + 1, MaxPosts)]

\* The bool an operation returns for a response it takes as final.
VRet(r) == IF r.status = 200 THEN "True" ELSE "False"

\* assign_thread(payload) is called: it fetches the modal page (line 290).
VAssignBegin ==
  /\ vop.pc = "idle"
  /\ \E m \in MsgIds \ {0} :
       vop' = [VIdleOp EXCEPT !.pc = "tokpage", !.op = "assign_thread",
                              !.message_id = m]
  /\ UNCHANGED <<vps, nonVPS>>

\* authenticate() is called as an operation of its own (the authenticate
\* method of the command line, lines 513-515).
VAuthenticateBegin ==
  /\ vop.pc = "idle"
  /\ vop' = [VIdleOp EXCEPT !.pc = "auth", !.op = "authenticate"]
  /\ UNCHANGED <<vps, nonVPS>>

\* send_reply(thread_id, message) is called (lines 353-366).
VSendReplyBegin ==
  /\ vop.pc = "idle"
  /\ LET o == [VIdleOp EXCEPT !.op = "send_reply"] IN
       vop' = IF vps.csrf_token = NoToken
                THEN [o EXCEPT !.pc = "tokpage"]
                ELSE VSend(o, vps.csrf_token, 0)
  /\ UNCHANGED <<vps, nonVPS>>

\* _get_csrf_token_from_page returns (lines 72-88); the form is built with
\* self.csrf_token and the POST is sent.
VTokPageReturn ==
  /\ vop.pc = "tokpage"
  /\ \E page \in Tokens \cup {NoToken} :
       LET tok == IF page # NoToken THEN page ELSE vps.csrf_token IN
       /\ vps' = [vps EXCEPT !.csrf_token = tok]
       /\ vop' = VSend(vop, tok, IF vop.op = "assign_thread" THEN 1 ELSE 0)
  /\ UNCHANGED nonVPS

\* send_reply: the POST returns.
VDirectReturn ==
  /\ vop.pc = "direct"
  /\ \E r \in ClientOutcomes :
       vop' = [vop EXCEPT !.pc = "done", !.resp1 = r, !.result = r,
                          !.ret = IF r.exc # "" THEN "raise" ELSE VRet(r)]
  /\ UNCHANGED <<vps, nonVPS>>

\* _retry_with_csrf: the first request returns (lines 164-171).
VPost1Return ==
  /\ vop.pc = "post1"
  /\ \E r \in ClientOutcomes :
       vop' =
         IF r.exc # ""
           THEN [vop EXCEPT !.pc = "done", !.resp1 = r, !.result = r, !.ret = "raise"]
         ELSE IF ~VPS_is_csrf_failure(r)
           THEN [vop EXCEPT !.pc = "done", !.resp1 = r, !.result = r, !.ret = VRet(r)]
         ELSE IF vps.csrf_token_cache[vop.message_id] # NoToken
           THEN VSend([vop EXCEPT !.resp1 = r],
                      vps.csrf_token_cache[vop.message_id], 2)
         ELSE [vop EXCEPT !.pc = "modal", !.resp1 = r]
  /\ UNCHANGED <<vps, nonVPS>>

\* _get_token_for_modal: the modal page returns (lines 142-158), then
\* _retry_with_csrf lines 173-185; without a token the first response goes
\* back to assign_thread, whose check at line 334 re-authenticates.
VModalReturn ==
  /\ vop.pc = "modal"
  /\ \E page \in Tokens \cup {NoToken} :
       IF page # NoToken
         THEN /\ vps' = [vps EXCEPT !.csrf_token = page,
                                    !.csrf_token_cache[vop.message_id] = page]
              /\ vop' = VSend(vop, page, 2)
         ELSE /\ vop' = [vop EXCEPT !.pc = "auth", !.result = vop.resp1]
              /\ UNCHANGED vps
  /\ UNCHANGED nonVPS

\* _retry_with_csrf: the retried request returns; assign_thread lines 330-349.
VPost2Return ==
  /\ vop.pc = "post2"
  /\ \E r \in ClientOutcomes :
       vop' =
         IF r.exc # ""
           THEN [vop EXCEPT !.pc = "done", !.result = r, !.ret = "raise"]
         ELSE IF VPS_is_csrf_failure(r)
           THEN [vop EXCEPT !.pc = "auth", !.result = r]
         ELSE [vop EXCEPT !.pc = "done", !.result = r, !.ret = VRet(r)]
  /\ UNCHANGED <<vps, nonVPS>>

\* authenticate() returns (lines 90-98), having saved the cookies when it
\* found a token: with a token assign_thread calls itself (line 339), without
\* one it returns False.
VAuthReturn ==
  /\ vop.pc = "auth"
  /\ \E page \in Tokens \cup {NoToken} :
       IF page # NoToken
         THEN /\ vps' = [vps EXCEPT !.csrf_token = page,
                                    !.cookie_file_written = TRUE]
              /\ vop' = IF vop.op = "assign_thread"
                          THEN [vop EXCEPT !.pc = "tokpage"]
                          ELSE [vop EXCEPT !.pc = "done", !.ret = "True"]
         ELSE /\ vop' = [vop EXCEPT !.pc = "done", !.ret = "False"]
              /\ UNCHANGED vps
  /\ UNCHANGED nonVPS

\* The caller takes the result.
VFinish ==
  /\ vop.pc = "done"
  /\ vop' = VIdleOp
  /\ UNCHANGED <<vps, nonVPS>>

NextVPS ==
  \/ VAuthenticateBegin
  \/ VAssignBegin
  \/ VSendReplyBegin
  \/ VTokPageReturn
  \/ VDirectReturn
  \/ VPost1Return
  \/ VModalReturn
  \/ VPost2Return
  \/ VAuthReturn
  \/ VFinish

SpecVPS == Init /\ [][NextVPS]_vars

\* ----------------------------------------------------- NpidAutomator actions
HttpStatuses == {200, 419, 500}

\* The call is over: its request is gone, what is left is what it returns.
Done(tk) ==
  [tk EXCEPT !.pc = "done", !.body_token = NoToken, !.header_token = NoToken]

\* npid_server.assign_thread is called (line 104); it first awaits
\* automator.ensure_login() (line 118).
AAssignBegin(t) ==
  /\ atask[t].pc = "idle"
  /\ atask' = [atask EXCEPT ![t] = [IdleATask EXCEPT !.pc = "el1_wait",
                                                     !.op = "assign_thread"]]
  /\ UNCHANGED <<automator, nonAutomator>>

\* Another tool calls request_json (npid_server._json_request, line 37).
ARequestBegin(t) ==
  /\ atask[t].pc = "idle"
  /\ atask' = [atask EXCEPT ![t] = [IdleATask EXCEPT !.pc = "el2_wait",
                                                     !.op = "request_json"]]
  /\ UNCHANGED <<automator, nonAutomator>>

\* close() is called.
ACloseBegin(t) ==
  /\ atask[t].pc = "idle"
  /\ atask' = [atask EXCEPT ![t] = [IdleATask EXCEPT !.pc = "close_wait",
                                                     !.op = "close"]]
  /\ UNCHANGED <<automator, nonAutomator>>

\* AAcquire if asyncio.Lock let a second task in.
AAcquire_unlocked(t) ==
  /\ atask[t].pc \in {"el1_wait", "el2_wait", "close_wait"}
  /\ automator' = [automator EXCEPT !._lock = t]
  /\ atask' = [atask EXCEPT ![t].pc =
        CASE atask[t].pc = "el1_wait" -> "el1_in"
          [] atask[t].pc = "el2_wait" -> "el2_in"
          [] OTHER -> "close_in"]
  /\ UNCHANGED nonAutomator

\* async with self._lock of ensure_login (line 67) and of close (line 53).
AAcquire(t) ==
  /\ atask[t].pc \in {"el1_wait", "el2_wait", "close_wait"}
  /\ automator._lock = NoTask
  /\ automator' = [automator EXCEPT !._lock = t]
  /\ atask' = [atask EXCEPT ![t].pc =
        CASE atask[t].pc = "el1_wait" -> "el1_in"
          [] atask[t].pc = "el2_wait" -> "el2_in"
          [] OTHER -> "close_in"]
  /\ UNCHANGED nonAutomator

\* What the task does when ensure_login has returned: assign_thread copies
\* the token into its payload (lines 119-121) and calls request_json;
\* request_json goes on to its own lock section (line 86).
AfterLogin(tk, a) ==
  IF tk.pc = "el1_in"
    THEN [tk EXCEPT !.pc = "el2_wait", !.body_token = a._csrf_token]
    ELSE [tk EXCEPT !.pc = "fetch_wait"]

\* The body of ensure_login under the lock (lines 68-74).
AEnsureLogin(t) ==
  /\ atask[t].pc \in {"el1_in", "el2_in"}
  /\ LET a0 == _ensure_started(automator) IN
       IF _is_session_fresh(a0)
         THEN /\ automator' = [a0 EXCEPT !._lock = NoTask]
              /\ atask' = [atask EXCEPT ![t] = AfterLogin(atask[t], a0)]
       ELSE IF ~a0.credentials
         THEN /\ automator' = [a0 EXCEPT !._lock = NoTask]
              /\ atask' = [atask EXCEPT ![t] =
                              [Done(atask[t]) EXCEPT !.error = "AutomatorError"]]
       ELSE \E ok \in BOOLEAN, meta \in Tokens \cup {NoToken} :
              IF ok
                THEN LET a1 == _perform_login(a0, meta) IN
                     /\ automator' = [a1 EXCEPT !._lock = NoTask]
                     /\ atask' = [atask EXCEPT ![t] = AfterLogin(atask[t], a1)]
                ELSE /\ meta = NoToken
                     /\ automator' = [a0 EXCEPT !._lock = NoTask]
                     /\ atask' = [atask EXCEPT ![t] =
                                     [Done(atask[t]) EXCEPT !.error = "AutomatorError"]]
  /\ UNCHANGED nonAutomator

\* request_json takes the lock and calls _fetch_json (lines 86-87, 170-199):
\* the assertion on self._page, then the fetch leaves with the header token
\* read from the automator and the body the caller built. On a closed
\* automator the assertion fails, or, when Python runs with -O and the
\* assertion is compiled away, self._page.evaluate raises AttributeError.
AFetchBegin(t) ==
  /\ atask[t].pc = "fetch_wait"
  /\ automator._lock = NoTask
  /\ IF automator.started
       THEN /\ automator' = [automator EXCEPT !._lock = t]
            /\ atask' = [atask EXCEPT ![t].pc = "fetch1",
                                      ![t].header_token = automator._csrf_token,
                                      ![t].fetches = 1]
       ELSE /\ \E e \in {"AssertionError", "AttributeError"} :
                 atask' = [atask EXCEPT ![t] =
                              [Done(atask[t]) EXCEPT !.error = e]]
            /\ UNCHANGED automator
  /\ UNCHANGED nonAutomator

\* The first fetch returns (lines 87-91); a rejected session starts the
\* forced login.
AFetch1Return(t) ==
  /\ atask[t].pc = "fetch1"
  /\ \/ \E st \in HttpStatuses :
          IF st \in {401, 403, 419}
            THEN /\ atask' = [atask EXCEPT ![t].pc = "relogin", ![t].status = st]
                 /\ UNCHANGED automator
            ELSE /\ atask' = [atask EXCEPT ![t] =
                                 [Done(atask[t]) EXCEPT !.status = st]]
                 /\ automator' = [automator EXCEPT !._lock = NoTask]
     \/ /\ atask' = [atask EXCEPT ![t] =
                        [Done(atask[t]) EXCEPT !.error = "AutomatorError"]]
        /\ automator' = [automator EXCEPT !._lock = NoTask]
  /\ UNCHANGED nonAutomator

\* _perform_login(force=True) returns or raises; after it the same url,
\* method and body are fetched again (lines 91-92).
ARelogin(t) ==
  /\ atask[t].pc = "relogin"
  /\ \/ \E meta \in Tokens \cup {NoToken} :
          LET a1 == _perform_login(automator, meta) IN
          /\ automator' = a1
          /\ atask' = [atask EXCEPT ![t].pc = "fetch2",
                                    ![t].header_token = a1._csrf_token,
                                    ![t].fetches = 2]
     \/ /\ atask' = [atask EXCEPT ![t] =
                        [Done(atask[t]) EXCEPT !.error = "AutomatorError"]]
        /\ automator' = [automator EXCEPT !._lock = NoTask]
  /\ UNCHANGED nonAutomator

\* The second fetch returns (lines 92-93).
AFetch2Return(t) ==
  /\ atask[t].pc = "fetch2"
  /\ \/ \E st \in HttpStatuses :
          atask' = [atask EXCEPT ![t] =
                       [Done(atask[t]) EXCEPT !.status = st]]
     \/ atask' = [atask EXCEPT ![t] =
                     [Done(atask[t]) EXCEPT !.error = "AutomatorError"]]
  /\ automator' = [automator EXCEPT !._lock = NoTask]
  /\ UNCHANGED nonAutomator

\* The body of close() under the lock (lines 54-64).
ACloseBody(t) ==
  /\ atask[t].pc = "close_in"
  /\ automator' = [automator EXCEPT !.started = FALSE, !._csrf_token = NoToken,
                                    !._lock = NoTask]
  /\ atask' = [atask EXCEPT ![t] = Done(atask[t])]
  /\ UNCHANGED nonAutomator

\* The tool returns its answer.
AFinish(t) ==
  /\ atask[t].pc = "done"
  /\ atask' = [atask EXCEPT ![t] = IdleATask]
  /\ UNCHANGED <<automator, nonAutomator>>

\* The session TTL runs out (line 79).
ATtlExpires ==
  /\ automator._last_login = "fresh"
  /\ automator' = [automator EXCEPT !._last_login = "stale"]
  /\ UNCHANGED <<atask, nonAutomator>>

NextAutomator ==
  \/ \E t \in TaskIds :
       \/ AAssignBegin(t)
       \/ ARequestBegin(t)
       \/ ACloseBegin(t)
       \/ AAcquire(t)
       \/ AEnsureLogin(t)
       \/ AFetchBegin(t)
       \/ AFetch1Return(t)
       \/ ARelogin(t)
       \/ AFetch2Return(t)
       \/ ACloseBody(t)
       \/ AFinish(t)
  \/ ATtlExpires

\* The automator is built from the environment: credentials may be missing,
\* a storage state file may be left from an earlier run.
InitAutomator ==
  /\ session = [csrf_token |-> NoToken]
  /\ task = [c \in Callers |-> IdleTask]
  /\ inflight_refresh = 0
  /\ client = NewClient
  /\ cop = IdleOp
  /\ vps = NewVPS
  /\ vop = VIdleOp
  /\ \E creds \in BOOLEAN, storage \in BOOLEAN :
       automator = NewAutomator(creds, storage)
  /\ atask = [t \in TaskIds |-> IdleATask]
  /\ app = NewApp("missing")
  /\ probe = Given(R200)
  /\ form = IdleForm
  /\ dec = IdleDec
  /\ sse = NewSSE

SpecAutomator == InitAutomator /\ [][NextAutomator]_vars

\* ------------------------------- LegacyTranslator, requests (legacy.py)
\* The names of the form fields each *_to_legacy builds (video progress:
\* the filters of VideoProgressFilters are among the names already there).
video_submit_to_legacy(auto_approve) ==
  {"athleteviewtoken", "schoolinfo[add_video_season]", "sport_alias",
   "url_source", "newVideoLink", "videoType", "newVideoSeason",
   "athlete_main_id"}
    \cup (IF auto_approve THEN {"approve_video", "approve_video_checkbox"}
          ELSE {})
stage_update_to_legacy == {"video_msg_id", "video_progress_stage"}
status_update_to_legacy == {"video_msg_id", "video_progress_status"}
due_date_update_to_legacy == {"video_msg_id", "video_due_date"}
video_progress_to_legacy ==
  {"first_name", "last_name", "email", "sport", "states", "athlete_school",
   "editorassigneddatefrom", "editorassigneddateto", "grad_year",
   "video_editor", "video_progress", "video_progress_stage",
   "video_progress_status"}
seasons_request_to_legacy ==
  {"athlete_id", "sport_alias", "video_type", "athlete_main_id",
   "return_type"}
assign_thread_to_legacy ==
  {"_token", "contact_task", "athlete_main_id", "messageid",
   "videoscoutassignedto", "contactfor", "contact", "video_progress_stage",
   "video_progress_status"}
send_reply_to_legacy ==
  {"_token", "message_type", "reply_message_id", "reply_main_id", "draftid",
   "message_subject", "message_message"}

to_legacy(family, auto_approve) ==
  CASE family = "seasons" -> seasons_request_to_legacy
    [] family = "video_submit" -> video_submit_to_legacy(auto_approve)
    [] family = "stage_update" -> stage_update_to_legacy
    [] family = "status_update" -> status_update_to_legacy
    [] family = "due_date" -> due_date_update_to_legacy
    [] family = "video_progress" -> video_progress_to_legacy
    [] family = "assign_thread" -> assign_thread_to_legacy
    [] family = "send_reply" -> send_reply_to_legacy

\* The router hands the payload to the translator; only assign_thread and
\* send_reply put a "_token" into the form, the one the payload brought.
Translate ==
  /\ form.pc = "given"
  /\ form' = [form EXCEPT !.pc = "translated",
                          !.fields =
                            to_legacy(form.family, form.auto_approve),
                          !.token =
                            IF "_token"
                                 \in to_legacy(form.family, form.auto_approve)
                            THEN form.form_token ELSE NoToken]
  /\ UNCHANGED nonForm

\* NPIDSession.post up to the first attempt (lines 147-160): a session
\* without a token reads the token page first, then data["_token"] is set to
\* the session's token whatever the form held.
FormPost ==
  /\ form.pc = "translated"
  /\ \E page \in Tokens \cup {NoToken} :
       LET tok == IF form.csrf_token = NoToken
                  THEN refresh_csrf(form.csrf_token, page)
                  ELSE form.csrf_token
       IN form' = [form EXCEPT !.pc = "sent", !.csrf_token = tok,
                               !.sent_fields = form.fields \cup {"_token"},
                               !.sent_token = tok]
  /\ UNCHANGED nonForm

NextTranslate ==
  \/ Translate
  \/ FormPost

InitTranslate ==
  /\ InitOthers
  /\ dec = IdleDec
  /\ sse = NewSSE
  /\ \E family \in Families, auto_approve \in BOOLEAN,
        form_token, csrf_token \in Tokens \cup {NoToken} :
       form = GivenForm(family, auto_approve, form_token, csrf_token)

SpecTranslate == InitTranslate /\ [][NextTranslate]_vars

\* ------------------------------ LegacyTranslator, responses (legacy.py)
\* inner.get("success") == "true" or inner.get("success") is True
IsTrue(v) == v \in {"true", "True"}
\* the truth value of data.get('success', True) in "if result['success']"
Truthy(v) == v # "False"

parse_video_submit_response(b) ==
  IF b.kind # "json"
  THEN [NoResult EXCEPT !.raw = "excerpt"]
  ELSE IF b.top = "scalar"
  THEN [NoResult EXCEPT !.raised = "TypeError"]
  ELSE IF b.top = "list"
  THEN [NoResult EXCEPT !.raised = "AttributeError"]
  ELSE IF b.data = "dict" /\ b.response = "json"
  THEN [NoResult EXCEPT !.success = IsTrue(b.inner_success), !.raw = "outer"]
  ELSE IF b.data = "dict" /\ b.response = "text"
  THEN [NoResult EXCEPT !.success = ({"success", "true"} \subseteq b.inner_words),
                        !.raw = "outer"]
  ELSE [NoResult EXCEPT !.success = IsTrue(b.success), !.raw = "outer"]

parse_seasons_response(b) ==
  IF b.kind = "json"
  THEN IF b.top = "list"
       THEN [NoResult EXCEPT !.success = TRUE, !.seasons = "entries"]
       ELSE IF b.top = "dict"
       THEN IF b.status_ok /\ b.data # "absent"
            THEN [NoResult EXCEPT !.success = TRUE,
                                  !.seasons = IF b.data = "list" THEN "entries"
                                              ELSE "object"]
            ELSE IF b.seasons
            THEN [NoResult EXCEPT !.success = TRUE, !.seasons = "entries"]
            ELSE [NoResult EXCEPT !.seasons = "empty"]
       ELSE [NoResult EXCEPT !.seasons = "empty"]
  ELSE [NoResult EXCEPT !.success = b.options > 0,
                        !.seasons = IF b.options > 0 THEN "entries"
                                    ELSE "empty"]

parse_stage_update_response(b) ==
  [NoResult EXCEPT !.success = TRUE,
                   !.raw = IF b.kind = "empty" THEN "none" ELSE "excerpt"]

parse_assign_thread_response(b) ==
  IF b.kind = "empty"
  THEN [NoResult EXCEPT !.success = TRUE]
  ELSE IF b.kind = "json" /\ b.top = "dict"
  THEN [NoResult EXCEPT !.success = Truthy(b.success)]
  ELSE [NoResult EXCEPT !.success = TRUE, !.contact_id = b.contact_task]

parse_response(op, b) ==
  CASE op = "video_submit" -> parse_video_submit_response(b)
    [] op = "seasons" -> parse_seasons_response(b)
    [] op = "stage_update" -> parse_stage_update_response(b)
    [] op = "assign_thread" -> parse_assign_thread_response(b)

\* The router hands response.text to the parser of its operation.
Decode ==
  /\ dec.pc = "given"
  /\ dec' = [dec EXCEPT !.pc = "decoded",
                        !.result = parse_response(dec.op, dec.body)]
  /\ UNCHANGED nonDec

NextDecode == Decode

InitDecode ==
  /\ InitOthers
  /\ form = IdleForm
  /\ sse = NewSSE
  /\ \E op \in DecodeOps, body \in Bodies : dec = GivenBody(op, body)

SpecDecode == InitDecode /\ [][NextDecode]_vars

\* --------------------------- SSE server (session_stream_server.py)
\* StreamLogger.emit_event: the event a handler puts on the shared queue.
emit_event(h, type) ==
  [by |-> h, k |-> sse.handler[h].emitted + 1, type |-> type]

\* What a generate() does between one yield and its next emit_event: the
\* steps it can take from the event it emitted last. NpidAutomator(...) and
\* automator_instance.get_inbox_threads(...) may raise, which leads to the
\* error event of the except clause; after the last event the generator
\* ends (next = "").
Continue(op, last, instance, threads) ==
  CASE op = "init_session" /\ last = "status" ->
         {[next |-> "operation_complete", instance |-> TRUE, threads |-> 0],
          [next |-> "error", instance |-> instance, threads |-> 0]}
    [] op = "get_inbox_threads" /\ last = "operation_start" ->
         {[next |-> IF instance THEN "status_fetch" ELSE "status_init",
           instance |-> instance, threads |-> 0]}
    [] op = "get_inbox_threads" /\ last = "status_init" ->
         {[next |-> "status_fetch", instance |-> TRUE, threads |-> 0],
          [next |-> "error", instance |-> instance, threads |-> 0]}
    [] op = "get_inbox_threads" /\ last = "status_fetch" ->
         {[next |-> IF n > 0 THEN "thread" ELSE "operation_complete",
           instance |-> instance, threads |-> n] : n \in 0..MaxThreads}
           \cup {[next |-> "error", instance |-> instance, threads |-> 0]}
    [] op = "get_inbox_threads" /\ last = "thread" ->
         {[next |-> IF threads > 1 THEN "thread" ELSE "operation_complete",
           instance |-> instance, threads |-> threads - 1]}
    [] OTHER -> {[next |-> "", instance |-> instance, threads |-> 0]}

\* A request arrives at /api/session/init or /api/inbox/threads.
HStart(h) ==
  /\ sse.handler[h].pc = "idle"
  /\ \E op \in {"init_session", "get_inbox_threads"} :
       sse' = [sse EXCEPT !.handler[h] =
                 [IdleHandler EXCEPT !.pc = "emit", !.op = op,
                    !.next = IF op = "init_session" THEN "status"
                             ELSE "operation_start"]]
  /\ UNCHANGED nonSSE

\* stream_logger.emit_event(...): event_queue.put.
HEmit(h) ==
  /\ sse.handler[h].pc = "emit"
  /\ sse' = [sse EXCEPT
               !.event_queue = Append(@, emit_event(h, sse.handler[h].next)),
               !.handler[h].emitted = @ + 1,
               !.handler[h].pc = "get"]
  /\ UNCHANGED nonSSE

\* yield format_sse_message(event_queue.get()): the blocking get returns the
\* head of the queue whoever put it there; the generator then runs on to its
\* next emit_event or to its end.
HGet(h) ==
  /\ sse.handler[h].pc = "get"
  /\ sse.event_queue # <<>>
  /\ \E c \in Continue(sse.handler[h].op, sse.handler[h].next,
                       sse.automator_instance, sse.handler[h].threads) :
       sse' = [sse EXCEPT
                 !.event_queue = Tail(@),
                 !.automator_instance = c.instance,
                 !.handler[h].yielded = Append(@, Head(sse.event_queue)),
                 !.handler[h].next = c.next,
                 !.handler[h].threads = c.threads,
                 !.handler[h].pc = IF c.next = "" THEN "done" ELSE "emit"]
  /\ UNCHANGED nonSSE

\* A client connects to /stream: the "connected" message.
StreamConnect ==
  /\ sse.stream.pc = "off"
  /\ sse' = [sse EXCEPT !.stream.pc = "check"]
  /\ UNCHANGED nonSSE

\* if not event_queue.empty(): go on to get_nowait; else: a heartbeat and
\* time.sleep(30), after which the loop checks again.
StreamCheck ==
  /\ sse.stream.pc = "check"
  /\ sse' = [sse EXCEPT !.stream.pc = IF sse.event_queue # <<>> THEN "take"
                                      ELSE "check"]
  /\ UNCHANGED nonSSE

\* event_queue.get_nowait(): raises queue.Empty when another consumer took
\* the event since the check; the except clause sends an error and breaks.
StreamTake ==
  /\ sse.stream.pc = "take"
  /\ IF sse.event_queue # <<>>
     THEN sse' = [sse EXCEPT !.event_queue = Tail(@),
                             !.stream.taken = @ \cup {Head(sse.event_queue)},
                             !.stream.pc = "check"]
     ELSE sse' = [sse EXCEPT !.stream.pc = "closed"]
  /\ UNCHANGED nonSSE

NextSSE ==
  \/ \E h \in Handlers : HStart(h)
  \/ \E h \in Handlers : HEmit(h)
  \/ \E h \in Handlers : HGet(h)
  \/ StreamConnect
  \/ StreamCheck
  \/ StreamTake

InitSSE ==
  /\ InitOthers
  /\ form = IdleForm
  /\ dec = IdleDec
  /\ sse = NewSSE

SpecSSE == InitSSE /\ [][NextSSE]_vars

\* Flask runs every generator on a thread of its own (threaded=True) and the
\* operating system schedules each thread that can run: a handler that can
\* put or whose get can return does so, and the /stream loop, once a client
\* is connected, keeps polling.
FairSSE ==
  /\ \A h \in Handlers : WF_vars(HEmit(h)) /\ WF_vars(HGet(h))
  /\ WF_vars(StreamCheck) /\ WF_vars(StreamTake)

SpecSSEFair == InitSSE /\ [][NextSSE]_vars /\ FairSSE

\* ------------------------------------------------------------------ claims
RefreshingPcs == {"refresh0", "refresh1"}

\* An UpstreamError in the sense of the FailureClassifier: an answer with a
\* status of 400 or above that is neither 419 nor an HTML document.
IsUpstreamError(r) ==
  r.exc = "" /\ r.status >= 400 /\ r.status # 419 /\ "text/html" \notin r.content_type

\* C1: every logical operation sends its request upstream at most twice,
\* also when the second attempt is again a session/CSRF failure.
C1_AtMostTwoAttempts ==
  /\ \A c \in Callers : task[c].posts <= 2
  /\ cop.posts <= 2
  /\ vop.posts <= 2

\* C2: an operation of NPIDAPIClient._retry_with_csrf whose first attempt was
\* classified a session/CSRF failure has made exactly one token refresh (one
\* fetch of the token page) and exactly one retry when it returns.
C2_OneRefreshOneRetry ==
  (cop.pc = "done" /\ cop.op = "assign_thread" /\ cop.resp1.exc = ""
     /\ Client_is_csrf_failure(cop.resp1))
    => (cop.modal_gets = 1 /\ cop.posts = 2)

\* C3: when all N callers of the session are refreshing the token at the same
\* time, one physical refresh GET serves them all.
C3_SingleFlightRefresh ==
  (\A c \in Callers : task[c].pc \in RefreshingPcs) => inflight_refresh = 1

\* C4: at any time at most one token refresh is in flight on the session.
C4_AtMostOneRefreshInFlight == inflight_refresh <= 1

\* C5: a request that is in flight carries the CSRF token the automator
\* holds, in its X-CSRF-TOKEN header and in the _token field of its body.
C5_TokenReadAtExecution ==
  \A t \in TaskIds :
    atask[t].pc \in {"fetch1", "fetch2"}
      => /\ atask[t].header_token = automator._csrf_token
         /\ atask[t].op = "assign_thread"
              => atask[t].body_token = automator._csrf_token

\* C6: a POST reissued after HTTP 419 carries the token that the refresh made
\* for it obtained.
C6_RetryCarriesRefreshedToken ==
  (cop.pc = "post2" /\ cop.resp1.status = 419)
    => (cop.fresh # NoToken /\ cop.data_token = cop.fresh)

\* C7: when the first attempt was classified a session/CSRF failure, what the
\* caller gets is the outcome of the retry attempt, never that of the first.
C7_ResultIsRetryOutcome ==
  (cop.pc = "done" /\ cop.op = "assign_thread" /\ cop.resp1.exc = ""
     /\ Client_is_csrf_failure(cop.resp1))
    => cop.result_from = 2

\* C8: once the first attempt of a post() is an UpstreamError, the operation
\* is over: no refresh and no retry follow, and the caller has that first
\* outcome unchanged.
C8_UpstreamErrorNotRetried ==
  \A c \in Callers :
    (task[c].pc \notin {"get1", "gotten"} /\ IsUpstreamError(task[c].resp1))
      => /\ task[c].pc = "done"
         /\ task[c].posts = 1
         /\ task[c].result_from = 1
         /\ task[c].result = task[c].resp1

C8_Witness ==
  \E c \in Callers :
    task[c].pc = "done" /\ task[c].resp1 = R500 /\ task[c].result = R500

\* C9 as stated: no post() hands its caller an outcome that is classified a
\* session/CSRF failure.
C9_CsrfNeverSurfaced ==
  \A c \in Callers :
    task[c].pc = "done" => ~(task[c].result.exc = "" /\ _is_csrf_failure(task[c].result))

\* C9 amended: post() hands its caller a session/CSRF failure only as the
\* outcome of the retry attempt, never as the outcome of the first attempt.
C9_CsrfSurfacedOnlyFromRetry ==
  \A c \in Callers :
    (task[c].pc = "done" /\ task[c].result.exc = ""
       /\ _is_csrf_failure(task[c].result))
      => (task[c].posts = 2 /\ task[c].result_from = 2)

C9_Witness ==
  \E c \in Callers :
    /\ task[c].pc = "done" /\ task[c].result = R419
    /\ task[c].result_from = 2 /\ task[c].posts = 2

\* C10: every outgoing call is wrapped: a call whose first response is
\* classified a session/CSRF failure has been replayed when it returns.
C10_EveryCallWrapped ==
  /\ \A c \in Callers :
       (task[c].pc \in {"done", "gotten"} /\ task[c].resp1.exc = ""
          /\ _is_csrf_failure(task[c].resp1))
         => task[c].result_from = 2
  /\ (cop.pc = "done" /\ cop.op = "update_video_stage" /\ cop.resp1.exc = ""
        /\ Client_is_csrf_failure(cop.resp1))
       => cop.result_from = 2
  /\ (vop.pc = "done" /\ vop.op = "send_reply" /\ vop.resp1.exc = ""
        /\ VPS_is_csrf_failure(vop.resp1))
       => vop.posts = 2

\* C11: a network call that times out surfaces to the caller as a timeout and
\* is not followed by any further request of the same operation: the call of
\* a caller whose refresh GET timed out is over, with the timeout as its
\* result.
C11_TimeoutSurfaces ==
  \A c \in Callers :
    task[c].refresh_exc = "timeout"
      => (task[c].pc = "done" /\ task[c].result = Timeout)

\* C12: Closed is terminal: once a close() of the automator has returned, no
\* later operation brings the automator out of the closed state (no browser,
\* no page), whatever the other coroutines do.
C12_ClosedIsTerminal ==
  (\E t \in TaskIds : atask[t].op = "close" /\ atask[t].pc = "done")
    => ~automator.started

\* C13: an unrecoverable authentication failure puts the session in
\* Unauthenticated and surfaces the error: when the forced login of
\* request_json is rejected, the call ends with the error and the automator
\* no longer takes its session for a fresh, logged-in one.
C13_LoginFailureUnauthenticates ==
  [][\A t \in TaskIds :
       (atask[t].pc = "relogin" /\ atask'[t].pc = "done")
         => (atask'[t].error = "AutomatorError"
               /\ ~_is_session_fresh(automator'))]_vars

\* C14: initialize() fails when there are no credentials and no valid stored
\* session: the app only gets to serve requests when the session file gave
\* it cookies, otherwise its startup ended with an error.
C14_InitializeFailsWithoutSession ==
  app.pc = "running" => (app.session_file = "cookies" \/ app.error # "")

\* C15: when the login page has no anti-forgery token field, the login fails
\* with an error, the client is not authenticated and nothing is written to
\* the cookie file.
C15_NoTokenNoLogin ==
  [][(cop.pc = "login" /\ cop'.login_page = "no_token")
       => /\ cop'.pc = "done" /\ cop'.result = AuthExc
          /\ ~client'.authenticated
          /\ client'.cookie_file_written = client.cookie_file_written]_vars

\* A login found its login page without the token field.
C15_Witness ==
  /\ cop.pc = "done" /\ cop.login_page = "no_token"
  /\ cop.result = AuthExc /\ ~client.cookie_file_written

\* C16: the persisted cookie store is written only when the client is
\* initialized (or closed), never during an operation in between: every
\* write of the cookie file happens in an authenticate() that was called as
\* an operation of its own.
C16_StoreWrittenOnlyAtInitialize ==
  [][vps'.cookie_file_written # vps.cookie_file_written
       => vop.op = "authenticate"]_vars

\* C17: close() writes the session's current cookies to the store and
\* releases the transport: when close() of a running automator returns, the
\* browser is gone and the storage state file holds the session.
C17_CloseFlushesCookies ==
  [][\A t \in TaskIds :
       (atask[t].pc = "close_in" /\ atask'[t].pc = "done" /\ automator.started)
         => (~automator'.started /\ automator'.storage)]_vars

\* C18: a response with a redirect status whose Location points at the login
\* path is classified a session/CSRF failure, by each of the classifiers.
C18_RedirectToLoginIsCsrf ==
  (/\ probe.pc = "classified"
   /\ probe.resp.status \in {301, 302, 303, 307, 308}
   /\ "/auth/login" \in probe.resp.location)
    => (probe.session /\ probe.client /\ probe.vps)

\* C19: a response whose body is an HTML document where structured data was
\* expected (a login page or an error page) is classified a session/CSRF
\* failure, by each of the classifiers.
C19_HtmlBodyIsCsrf ==
  (/\ probe.pc = "classified"
   /\ "text/html" \in probe.resp.content_type
   /\ "<html" \in probe.resp.body)
    => (probe.session /\ probe.client /\ probe.vps)

\* C20: an input that fails a precondition makes the operation fail before
\* any network call is issued: an update_video_stage called with a stage that
\* is no stage never has a request in flight and never sends a POST.
C20_InvalidInputNoNetworkCall ==
  (cop.op = "update_video_stage" /\ stage_key(cop.stage) \notin DOMAIN StageLookup)
    => (cop.pc = "done" /\ cop.posts = 0)

\* C22: of the requests sent upstream, those of the seasons family and only
\* those carry the api_key field, and those of every other family carry the
\* _token field.
C22_ApiKeyOnlyForSeasons ==
  form.pc = "sent" =>
    /\ ("api_key" \in form.sent_fields) <=> (form.family = "seasons")
    /\ form.family # "seasons" => "_token" \in form.sent_fields

\* C28: the first POST of an assign-thread or send-reply request carries in
\* _token the value the translator put into the form data.
C28_FormTokenIsSent ==
  (form.pc = "sent" /\ form.family \in {"assign_thread", "send_reply"})
    => form.sent_token = form.token

\* C27: every POST that NPIDSession.post has in flight, the first one after
\* startup and the retry after a refresh alike, carries a non-empty _token.
C27_PostCarriesToken ==
  \A c \in Callers :
    task[c].pc \in {"post1", "post2"} => task[c].data_token # NoToken

\* A body in which no parser can find a statement about success: free text,
\* or an HTML page without a single option that has a value.
Unparseable(b) == b.kind = "text" \/ (b.kind = "html" /\ b.options = 0)

\* C21: a body from which success cannot be determined is decoded to
\* success = false, and the result keeps an excerpt of the raw body.
C21_FailClosed ==
  (dec.pc = "decoded" /\ Unparseable(dec.body))
    => (~dec.result.success /\ dec.result.raised = ""
          /\ dec.result.raw # "none")

\* The three success shapes: (a) a JSON object whose success field is true,
\* (b) a JSON object whose data.response is a JSON string saying success, (c)
\* an HTML fragment of options with values.
SuccessShaped(b) ==
  \/ b.kind = "json" /\ b.top = "dict" /\ b.response = "absent"
       /\ IsTrue(b.success)
  \/ b.kind = "json" /\ b.top = "dict" /\ b.response = "json"
       /\ IsTrue(b.inner_success)
  \/ b.kind = "html" /\ b.options > 0

\* C23: whatever the operation, a success-shaped body of each of the three
\* shapes is decoded to success = true, and a seasons result then holds the
\* list of season entries.
C23_SuccessShapedDecodes ==
  (dec.pc = "decoded" /\ SuccessShaped(dec.body))
    => /\ dec.result.success
       /\ dec.result.raised = ""
       /\ dec.op = "seasons" => dec.result.seasons = "entries"

\* C29: what a streaming handler has sent to its client is the events it put
\* on the queue itself, in the order it put them.
C29_HandlerYieldsOwnEvents ==
  \A h \in Handlers :
    \A i \in 1..Len(sse.handler[h].yielded) :
      /\ sse.handler[h].yielded[i].by = h
      /\ sse.handler[h].yielded[i].k = i

\* C30: a streaming handler blocked in event_queue.get() eventually gets an
\* event.
C30_GetReturns ==
  \A h \in Handlers :
    (sse.handler[h].pc = "get") ~> (sse.handler[h].pc # "get")

\* C24: VPSBrokerClient.assign_thread sends a bounded number of POSTs
\* whatever the upstream answers: the count of one call stays below the cap
\* MaxPosts at which the model stops counting.
C24_AssignThreadBounded ==
  vop.op = "assign_thread" => vop.posts < MaxPosts

\* C25: a request_json call, also one whose automator was closed by another
\* task between its ensure_login and its fetch, ends with an answer or with
\* AutomatorError.
C25_CloseBetweenLoginAndFetch ==
  \A t \in TaskIds :
    (atask[t].pc = "done" /\ atask[t].op \in {"request_json", "assign_thread"})
      => atask[t].error \in {"", "AutomatorError"}

\* The positions in which a task works on the browser page: the bodies of
\* ensure_login and close, and the fetch, re-login, refetch of request_json.
OnPage == {"el1_in", "el2_in", "close_in", "fetch1", "relogin", "fetch2"}

\* C26: a task that is at a login, fetch or close step holds the lock and no
\* other task is at such a step, so that nothing of another task comes
\* between the fetch, the forced re-login and the refetch of one call.
C26_PageStepsExclusive ==
  \A t \in TaskIds :
    atask[t].pc \in OnPage =>
      /\ automator._lock = t
      /\ \A u \in TaskIds \ {t} : atask[u].pc \notin OnPage

\* A call is between its forced re-login and its refetch while another task
\* waits for the lock.
C26_Witness ==
  \E t, u \in TaskIds :
    /\ atask[t].pc = "fetch2"
    /\ atask[u].pc \in {"el1_wait", "el2_wait", "fetch_wait", "close_wait"}

====
